---- MODULE Spec2Model ----
(***************************************************************************)
(* Cash-forecast projection and KPI derivation of ifaadi/cash-forecast.    *)
(*                                                                         *)
(* Three copies of the weekly projection exist in the repository:          *)
(*   "service"   generateForecastWeeks   (frontend/lib/forecast-service.ts)*)
(*   "mvp"       generateMockForecast    (frontend/app/dashboard/page.tsx) *)
(*   "persisted" generateMockForecast    (persisted dashboard, part_001)   *)
(* and the persisted dashboard derives its KPIs with calculateKPIs from    *)
(* the rows it displays; "stored" is a forecast read back from the         *)
(* forecast_weeks table.                                                   *)
(*                                                                         *)
(* Specifications:                                                         *)
(*   Spec           the three generators, display and KPI derivation       *)
(*   SpecInsights   buildFinancialContext, callGroq, generateCFOInsights,  *)
(*                  askCFO as called from the dashboard's handlers         *)
(*   SpecDashboard  the debounced update effect of the persisted dashboard *)
(*                  and updateForecastData / updateForecast                *)
(*   SpecRoute      the POST handler of the AI route and its model list    *)
(*   SpecComparison generateComparison of the actuals-vs-forecast page     *)
(*   SpecCreate     getOrCreateActiveForecast under concurrent callers     *)
(*   SpecStore      updateForecast and saveManualForecast, statement by    *)
(*                  statement, against the forecast tables                 *)
(*                                                                         *)
(* Arithmetic.  JavaScript numbers are modelled as exact rationals.  A     *)
(* percentage multiplier is an integer p applied as x * (p / 100), so an   *)
(* unrounded amount is held in hundredths of a currency unit ("cents").    *)
(* A Math.random() result is r / 100000 for an integer r in 0..99999; the   *)
(* draws used are multiples of 20, so each jitter is a whole amount and    *)
(* every fraction of an amount comes from its percentage multiplier.       *)
(* Dates are day numbers since 1970-01-01, instants are minutes since the  *)
(* epoch.                                                                  *)
(***************************************************************************)
EXTENDS Integers, Sequences, FiniteSets, TLC

VARIABLES
    source,        \* which projection produced the rows
    params,        \* the arguments of the call
    tz,            \* time zone of the host that runs the generator
    week,          \* loop counter of the generator
    balance,       \* running balance of the generator, in cents
    draws,         \* the Math.random() results consumed so far
    forecast,      \* rows returned by generateForecastWeeks / read from the table
    forecastData,  \* rows the dashboard displays
    kpis,          \* KPI set the dashboard displays
    pc,            \* "loop", "returned", "displayed", "fetching", "answered"
    contextText,   \* lines written by buildFinancialContext
    aiResult,      \* how generateCFOInsights / askCFO completed
    updating,      \* the dashboard's updating flag
    timers,        \* pending setTimeout callbacks of the debounced effect
    inflight,      \* the updateForecast call that has not returned yet
    burst,         \* parameter changes since the last updateForecast call
    failed,        \* an updateForecast call returned null
    touched,       \* the user has changed a parameter since the page opened
    comparison,    \* loop state and rows of generateComparison
    transactions,  \* the transactions loaded for the comparison
    route,         \* the POST handler of /api/groq
    forecastsTable,\* rows of the forecasts table of one user
    weeksTable,    \* rows of the forecast_weeks table
    calls          \* the service calls in progress, by caller

forecastVars ==
    <<source, params, tz, week, balance, draws, forecast, forecastData, kpis, pc>>
insightVars == <<contextText, aiResult>>
dashboardVars == <<updating, timers, inflight, burst, failed, touched>>
comparisonVars == <<comparison, transactions>>
storeVars == <<forecastsTable, weeksTable, calls>>
serverVars == <<comparisonVars, route, storeVars>>
vars == <<forecastVars, insightVars, dashboardVars, serverVars>>

(***************************************************************************)
(* Bounds and input sets                                                   *)
(***************************************************************************)
MaxWeeks == 3
MaxStored == 3

Horizons == -1 .. MaxWeeks
\* percentages inside the sliders' ranges (70..110 and 90..150)
SliderRevConf == {97, 100, 103}
SliderExpBuf == {90, 100}
\* the exported generator takes any number: zero and negative percentages too
RevConfValues == SliderRevConf \cup {-10, 0}
ExpBufValues == SliderExpBuf \cup {-10, 0}
StartingBalances == {5000000, 1000}
Draws == {20, 2000, 76000}
\* 2024-03-01 and 2024-06-03
StartDates == {19783, 19877}

\* Host time zones: offset from UTC in minutes outside daylight saving time,
\* and the instants (UTC minutes) between which the clock is one hour ahead.
ZoneUTC == [std |-> 0, dstFrom |-> 0, dstTo |-> 0]
\* America/New_York 2024: 10 March 07:00Z .. 3 November 06:00Z
ZoneNewYork == [std |-> -300, dstFrom |-> 28500900, dstTo |-> 28843560]
\* Europe/Berlin 2024: 31 March 01:00Z .. 27 October 01:00Z
ZoneBerlin == [std |-> 60, dstFrom |-> 28530780, dstTo |-> 28833180]
Zones == {ZoneUTC, ZoneNewYork, ZoneBerlin}

(***************************************************************************)
(* Baselines of the three projections                                      *)
(***************************************************************************)
ServiceBaseline ==
    [nominal |-> 900000, jitter |-> 100000,
     evenOutflow |-> 1000000, oddOutflow |-> 400000, extra |-> 300000]

MvpBaseline ==
    [nominal |-> 45000, jitter |-> 5000,
     evenOutflow |-> 50000, oddOutflow |-> 20000, extra |-> 15000]

PersistedBaseline ==
    [nominal |-> 900000, jitter |-> 100000,
     evenOutflow |-> 1000000, oddOutflow |-> 400000, extra |-> 300000]

Baseline(src) ==
    CASE src = "mvp" -> MvpBaseline
      [] src = "persisted" -> PersistedBaseline
      [] OTHER -> ServiceBaseline

\* let balance = 250000 / let balance = 5000000
MockStartingBalance(src) == IF src = "mvp" THEN 250000 ELSE 5000000

(***************************************************************************)
(* Number helpers                                                          *)
(***************************************************************************)
\* (mutant) truncation toward zero instead of rounding
MathRound_Truncate(c) == IF c >= 0 THEN c \div 100 ELSE -((-c) \div 100)

\* Math.round of an amount held in cents: floor(x + 0.5)
MathRound(c) == (c + 50) \div 100

Abs(x) == IF x < 0 THEN -x ELSE x

(***************************************************************************)
(* One period of the projection                                            *)
(***************************************************************************)
\* nominal + (Math.random() * jitter - jitter / 2), with Math.random() = r / 100000
\* (r * jitter / 100000 written as r * (jitter / 100) / 1000)
BaseInflow(cfg, r) ==
    cfg.nominal + ((r * (cfg.jitter \div 100)) \div 1000 - cfg.jitter \div 2)

BaseOutflow(cfg, w) == IF w % 2 = 0 THEN cfg.evenOutflow ELSE cfg.oddOutflow

AdditionalExpense(cfg, w) == IF w % 4 = 0 THEN cfg.extra ELSE 0

\* (mutant) the confidence applied as a discount
InflowCents_Discount(cfg, r, revConf) == BaseInflow(cfg, r) * (200 - revConf)

\* baseInflow * (revenueConfidence / 100), in cents
InflowCents(cfg, r, revConf) == BaseInflow(cfg, r) * revConf

\* (baseOutflow + additionalExpense) * (expenseBuffer / 100), in cents
OutflowCents(cfg, w, expBuf) == (BaseOutflow(cfg, w) + AdditionalExpense(cfg, w)) * expBuf

\* (mutant) the loop stops one period early
LoopContinues_Strict(w, weeks) == w < weeks

\* for (let week = 1; week <= weeks; week++)
LoopContinues(w, weeks) == w <= weeks

(***************************************************************************)
(* week_date: new Date(startDate), setDate on the local calendar,          *)
(* toISOString back in UTC                                                 *)
(***************************************************************************)
\* offset of local time from UTC at the UTC instant t
OffsetAtUTC(z, t) == IF z.dstFrom <= t /\ t < z.dstTo THEN z.std + 60 ELSE z.std

\* offset that the local wall-clock time l is read with
OffsetAtLocal(z, l) ==
    IF z.dstFrom + z.std + 60 <= l /\ l < z.dstTo + z.std + 60 THEN z.std + 60 ELSE z.std

WeekDate(z, startDate, w) ==
    LET start == startDate * 1440                   \* new Date("YYYY-MM-DD") is UTC midnight
        local == start + OffsetAtUTC(z, start)      \* local wall clock of start
        localDay == local \div 1440                 \* day that start.getDate() belongs to
        timeOfDay == local % 1440
        moved == (localDay + (w - 1) * 7) * 1440 + timeOfDay   \* setDate keeps the local time of day
        instant == moved - OffsetAtLocal(z, moved)
    IN  instant \div 1440                           \* toISOString().split('T')[0]

(***************************************************************************)
(* generateForecastWeeks: the row of one loop iteration and the balance    *)
(* carried to the next                                                     *)
(***************************************************************************)
\* (mutant) the balance is overwritten instead of accumulated
NewBalance_Overwrite(bal, netCents) == netCents

\* balance += net
NewBalance(bal, netCents) == bal + netCents

ForecastWeek(p, z, w, r, bal) ==
    LET inflow == MathRound(InflowCents(ServiceBaseline, r, p.revenueConfidence))
        outflow == MathRound(OutflowCents(ServiceBaseline, w, p.expenseBuffer))
        net == inflow - outflow
    IN  [week_number |-> w,
         week_date |-> WeekDate(z, p.startDate, w),
         inflow |-> inflow,
         outflow |-> outflow,
         net |-> net,
         balance |-> MathRound(NewBalance(bal, net * 100))]

(***************************************************************************)
(* JavaScript values whose type matters: a === b holds only for operands   *)
(* of the same type                                                        *)
(***************************************************************************)
JsString(text) == [type |-> "string", value |-> text]
JsNumber(n) == [type |-> "number", value |-> n]
StrictEquals(a, b) == a.type = b.type /\ a.value = b.value

\* `W${week} (${weekDate.toLocaleDateString(...)})`
WeekLabel(w, date) == JsString(<<"W", w, " (", date, ")">>)

(***************************************************************************)
(* generateMockForecast (both dashboards): amounts stay unrounded in the   *)
(* loop and every reported field is rounded on its own                     *)
(***************************************************************************)
MockWeekRow(src, p, w, r, bal) ==
    LET cfg == Baseline(src)
        inflow == InflowCents(cfg, r, p.revenueConfidence)
        outflow == OutflowCents(cfg, w, p.expenseBuffer)
        net == inflow - outflow
    IN  [week |-> WeekLabel(w, p.startDate + (w - 1) * 7),
         weekNumber |-> w,
         inflow |-> MathRound(inflow),
         outflow |-> MathRound(outflow),
         net |-> MathRound(net),
         balance |-> MathRound(NewBalance(bal, net))]

(***************************************************************************)
(* KPI derivation: calculateKPIs and the tail of generateMockForecast      *)
(***************************************************************************)
\* runway reported when no period burns cash
NoBurnRunway == 99

\* Math.min() of no arguments is Infinity
Infinity == 2147483647

DashboardThresholds ==
    [safety |-> 1000000, payroll |-> 2000000, high |-> 600000, medium |-> 300000]

MvpThresholds ==
    [safety |-> 50000, payroll |-> 100000, high |-> 30000, medium |-> 15000]

PersistedMockThresholds ==
    [safety |-> 1000000, payroll |-> 2000000, high |-> 600000, medium |-> 300000]

MockThresholds(src) == IF src = "mvp" THEN MvpThresholds ELSE PersistedMockThresholds

\* Math.min(...balances)
RECURSIVE MinBalance(_)
MinBalance(data) ==
    IF data = <<>> THEN Infinity
    ELSE LET rest == MinBalance(Tail(data))
         IN  IF Head(data).balance < rest THEN Head(data).balance ELSE rest

LowestCash(data) == MinBalance(data)

\* (mutant) the last period at the minimum instead of the first
LowestWeek_Last(data) ==
    LET hits == {i \in 1..Len(data) : data[i].balance = LowestCash(data)}
    IN  IF hits = {} THEN 0
        ELSE data[CHOOSE i \in hits : \A j \in hits : i >= j].weekNumber

\* data.find(f => f.balance === lowestCash)?.weekNumber || 0
LowestWeek(data) ==
    LET hits == {i \in 1..Len(data) : data[i].balance = LowestCash(data)}
    IN  IF hits = {} THEN 0
        ELSE data[CHOOSE i \in hits : \A j \in hits : i <= j].weekNumber

\* data.filter(f => f.net < 0)
IsBurn(f) == f.net < 0

NegativeFlows(data) == SelectSeq(data, IsBurn)

\* reduce((sum, f) => sum + f.net, 0)
RECURSIVE SumNet(_)
SumNet(data) == IF data = <<>> THEN 0 ELSE Head(data).net + SumNet(Tail(data))

\* (mutant) the burn is averaged over all periods
AvgBurnRate_AllPeriods(data) ==
    LET negativeFlows == NegativeFlows(data)
    IN  IF Len(negativeFlows) > 0
        THEN [num |-> Abs(SumNet(negativeFlows)), den |-> Len(data)]
        ELSE [num |-> 0, den |-> 1]

\* avgBurnRate as the fraction num / den
AvgBurnRate(data) ==
    LET negativeFlows == NegativeFlows(data)
    IN  IF Len(negativeFlows) > 0
        THEN [num |-> Abs(SumNet(negativeFlows)), den |-> Len(negativeFlows)]
        ELSE [num |-> 0, den |-> 1]

\* Math.floor(final / avgBurnRate), final in cents:
\* floor(final * den / (100 * num)), the cents split off to keep the product small
FloorQuotient(finalCents, avg) ==
    ((finalCents \div 100) * avg.den + ((finalCents % 100) * avg.den) \div 100) \div avg.num

Runway(finalCents, avg) ==
    IF avg.num > 0 THEN FloorQuotient(finalCents, avg) ELSE NoBurnRunway

\* Math.round(avgBurnRate)
RoundFraction(avg) == (2 * avg.num + avg.den) \div (2 * avg.den)

Volatility_Inclusive(avg, th) ==
    IF avg.num >= th.high * avg.den THEN "High"
    ELSE IF avg.num >= th.medium * avg.den THEN "Medium"
    ELSE "Low"

\* avgBurnRate > high ? 'High' : avgBurnRate > medium ? 'Medium' : 'Low'
Volatility(avg, th) ==
    IF avg.num > th.high * avg.den THEN "High"
    ELSE IF avg.num > th.medium * avg.den THEN "Medium"
    ELSE "Low"

BelowThreshold_Inclusive(data, th) ==
    Cardinality({i \in 1..Len(data) : data[i].balance <= th.safety})

\* filter(f => f.balance < safetyThreshold).length
BelowThreshold(data, th) == Cardinality({i \in 1..Len(data) : data[i].balance < th.safety})

PayrollRisk_OtherPositions(data, th) ==
    Cardinality({i \in 1..Len(data) : i % 2 = 0 /\ data[i].balance < th.payroll})

\* filter((f, i) => i % 2 === 0 && f.balance < payroll), i counted from 0
PayrollRisk(data, th) ==
    Cardinality({i \in 1..Len(data) : (i - 1) % 2 = 0 /\ data[i].balance < th.payroll})

KPISet(data, finalCents, th) ==
    LET avgBurnRate == AvgBurnRate(data)
    IN  [lowestCash |-> LowestCash(data),
         lowestWeek |-> LowestWeek(data),
         runway |-> Runway(finalCents, avgBurnRate),
         burnRate |-> RoundFraction(avgBurnRate),
         belowThreshold |-> BelowThreshold(data, th),
         payrollRisk |-> PayrollRisk(data, th),
         volatility |-> Volatility(avgBurnRate, th),
         volatilityScore |-> RoundFraction(avgBurnRate)]

\* data[data.length - 1]?.balance || 0
FinalBalance(data) == IF data = <<>> THEN 0 ELSE data[Len(data)].balance

CalculateKPIs(data) == KPISet(data, FinalBalance(data) * 100, DashboardThresholds)

\* the mock divides its own running balance, which was never rounded
MockKPIs(src, data, bal) == KPISet(data, bal, MockThresholds(src))

(***************************************************************************)
(* Rows for display: sort by week_number, then map                         *)
(***************************************************************************)
RECURSIVE InsertByWeek(_, _)
InsertByWeek(row, sorted) ==
    IF sorted = <<>> THEN <<row>>
    ELSE IF row.week_number < Head(sorted).week_number THEN <<row>> \o sorted
    ELSE <<Head(sorted)>> \o InsertByWeek(row, Tail(sorted))

RECURSIVE SortByWeekNumber(_)
SortByWeekNumber(rows) ==
    IF rows = <<>> THEN <<>>
    ELSE InsertByWeek(rows[Len(rows)], SortByWeekNumber(SubSeq(rows, 1, Len(rows) - 1)))

DisplayRow(fw) ==
    [week |-> WeekLabel(fw.week_number, fw.week_date),
     weekNumber |-> fw.week_number,
     inflow |-> fw.inflow,
     outflow |-> fw.outflow,
     net |-> fw.net,
     balance |-> fw.balance]

DisplayData(rows) ==
    LET sorted == SortByWeekNumber(rows)
    IN  [i \in 1..Len(sorted) |-> DisplayRow(sorted[i])]

(***************************************************************************)
(* Rows of the forecast_weeks table as a dashboard may read them back:     *)
(* unique week numbers 1..n in any order, written by the generator or by   *)
(* a manual entry (inflow and outflow split from the entered net)          *)
(***************************************************************************)
StoredNets == {-700001, -300000, 100}
StoredBalances == {850, 1000000, 2000000}
\* the start date recorded with a stored forecast
StoredStartDate == CHOOSE d \in StartDates : \A e \in StartDates : d <= e

StoredRow(w, net, bal) ==
    [week_number |-> w,
     week_date |-> StoredStartDate + (w - 1) * 7,
     inflow |-> IF net > 0 THEN net ELSE 0,
     outflow |-> IF net < 0 THEN Abs(net) ELSE 0,
     net |-> net,
     balance |-> bal]

\* the rows in the order the query returns them
StoredSeries(order, nets, bals) ==
    [i \in 1..Len(order) |-> StoredRow(order[i], nets[order[i]], bals[order[i]])]

\* a four-week forecast entered by hand: nets +100, -50, -200, +10 from 1000
HandNets == <<100, -50, -200, 10>>
HandBalances == <<1100, 1050, 850, 860>>
HandSeries == [i \in 1..4 |-> StoredRow(i, HandNets[i], HandBalances[i])]

\* a one-week forecast that burns 10100 and ends at 1000000
ThinBurnSeries == <<StoredRow(1, -10100, 1000000)>>

NoKPIs == [lowestCash |-> 0, lowestWeek |-> 0, runway |-> 0, burnRate |-> 0,
           belowThreshold |-> 0, payrollRisk |-> 0, volatility |-> "",
           volatilityScore |-> 0]

\* nothing has been asked of the narrative service
NoResult == [completion |-> "none"]
InsightsIdle == contextText = <<>> /\ aiResult = NoResult

\* no updateForecast call, no timer of the debounced effect
NoRequest == [weeks |-> 0]
DashboardIdle ==
    /\ updating = FALSE
    /\ timers = {}
    /\ inflight = NoRequest
    /\ burst = 0
    /\ failed = FALSE
    /\ touched = FALSE

\* no dashboard is open
ForecastIdle ==
    /\ source = "none"
    /\ params = [weeks |-> 0]
    /\ tz = ZoneUTC
    /\ week = 1
    /\ balance = 0
    /\ draws = <<>>
    /\ forecast = <<>>
    /\ forecastData = <<>>
    /\ kpis = NoKPIs
    /\ pc = "idle"

\* nothing is loaded on the comparison page, no request at the route, and
\* no service call in progress against empty tables
NoComparison == [pc |-> "idle"]
NoRoute == [pc |-> "idle"]
ComparisonIdle == comparison = NoComparison /\ transactions = {}
RouteIdle == route = NoRoute
StoreIdle == forecastsTable = {} /\ weeksTable = {} /\ calls = <<>>
ServerIdle == ComparisonIdle /\ RouteIdle /\ StoreIdle

(***************************************************************************)
(* State machine                                                           *)
(***************************************************************************)
ServiceParams(revConfs, expBufs) ==
    [weeks : Horizons, startDate : StartDates, startingBalance : StartingBalances,
     revenueConfidence : revConfs, expenseBuffer : expBufs]

\* the slider percentages are listed first so that they are explored first
InitService ==
    /\ source = "service"
    /\ \/ params \in ServiceParams(SliderRevConf, SliderExpBuf)
       \/ params \in ServiceParams(RevConfValues, ExpBufValues)
    /\ tz \in Zones
    /\ forecast = <<>>
    /\ pc = "loop"

InitMock ==
    /\ source \in {"mvp", "persisted"}
    /\ params \in [weeks : 1..MaxWeeks, startDate : {StoredStartDate},
                   startingBalance : {MockStartingBalance(source)},
                   revenueConfidence : SliderRevConf, expenseBuffer : SliderExpBuf]
    /\ tz = ZoneUTC
    /\ forecast = <<>>
    /\ pc = "loop"

InitStored ==
    /\ source = "stored"
    /\ \/ \E n \in 0..MaxStored :
            \E order \in Permutations(1..n) :
                \E nets \in [1..n -> StoredNets], bals \in [1..n -> StoredBalances] :
                    forecast = StoredSeries(order, nets, bals)
       \/ forecast = HandSeries
       \/ forecast = ThinBurnSeries
    /\ params = [weeks |-> Len(forecast), startDate |-> StoredStartDate,
                 startingBalance |-> 5000000,
                 revenueConfidence |-> 100, expenseBuffer |-> 100]
    /\ tz = ZoneUTC
    /\ pc = "returned"

Init ==
    /\ InitService \/ InitMock \/ InitStored
    /\ week = 1
    /\ balance = params.startingBalance * 100
    /\ draws = <<>>
    /\ forecastData = <<>>
    /\ kpis = NoKPIs
    /\ InsightsIdle
    /\ DashboardIdle
    /\ ServerIdle

\* one iteration of the loop of generateForecastWeeks
GenerateWeek ==
    /\ source = "service"
    /\ pc = "loop"
    /\ LoopContinues(week, params.weeks)
    /\ \E r \in Draws :
        LET row == ForecastWeek(params, tz, week, r, balance)
        IN  /\ forecast' = Append(forecast, row)
            /\ balance' = NewBalance(balance, row.net * 100)
            /\ draws' = Append(draws, r)
    /\ week' = week + 1
    /\ UNCHANGED <<source, params, tz, forecastData, kpis, pc>>
    /\ UNCHANGED <<insightVars, dashboardVars, serverVars>>

\* return forecast
GenerateReturn ==
    /\ source = "service"
    /\ pc = "loop"
    /\ ~LoopContinues(week, params.weeks)
    /\ pc' = "returned"
    /\ UNCHANGED <<source, params, tz, week, balance, draws, forecast, forecastData, kpis>>
    /\ UNCHANGED <<insightVars, dashboardVars, serverVars>>

\* the dashboard shows a forecast read from the service: sort, map, calculateKPIs
DisplayForecast ==
    /\ pc = "returned"
    /\ forecastData' = DisplayData(forecast)
    /\ kpis' = CalculateKPIs(DisplayData(forecast))
    /\ pc' = "displayed"
    /\ UNCHANGED <<source, params, tz, week, balance, draws, forecast>>
    /\ UNCHANGED <<insightVars, dashboardVars, serverVars>>

\* one iteration of the loop of generateMockForecast
MockWeek ==
    /\ source \in {"mvp", "persisted"}
    /\ pc = "loop"
    /\ LoopContinues(week, params.weeks)
    /\ \E r \in Draws :
        /\ forecast' = Append(forecast, MockWeekRow(source, params, week, r, balance))
        /\ balance' = NewBalance(balance,
                         InflowCents(Baseline(source), r, params.revenueConfidence)
                         - OutflowCents(Baseline(source), week, params.expenseBuffer))
        /\ draws' = Append(draws, r)
    /\ week' = week + 1
    /\ UNCHANGED <<source, params, tz, forecastData, kpis, pc>>
    /\ UNCHANGED <<insightVars, dashboardVars, serverVars>>

\* the KPI tail of generateMockForecast; the dashboard shows what it returns
MockReturn ==
    /\ source \in {"mvp", "persisted"}
    /\ pc = "loop"
    /\ ~LoopContinues(week, params.weeks)
    /\ forecastData' = forecast
    /\ kpis' = MockKPIs(source, forecast, balance)
    /\ pc' = "displayed"
    /\ UNCHANGED <<source, params, tz, week, balance, draws, forecast>>
    /\ UNCHANGED <<insightVars, dashboardVars, serverVars>>

Next ==
    \/ GenerateWeek
    \/ GenerateReturn
    \/ DisplayForecast
    \/ MockWeek
    \/ MockReturn

Spec == Init /\ [][Next]_vars

(***************************************************************************)
(* Narrative insights: buildFinancialContext, callGroq, generateCFOInsights *)
(* and askCFO of frontend/lib/ai.ts, called by the dashboards' handlers     *)
(* generateInsights and handlePanicMode                                     *)
(***************************************************************************)
MaxContextWeeks == 2

\* the flags of one week, in the order they are pushed
WeekFlags(w, k, safetyThreshold) ==
    (IF StrictEquals(w.week, JsNumber(k.lowestWeek)) THEN <<"CRITICAL">> ELSE <<>>)
    \o (IF w.balance < safetyThreshold THEN <<"BELOW THRESHOLD">> ELSE <<>>)
    \o (IF w.net < 0 THEN <<"BURN">> ELSE <<>>)

\* the WEEKLY CASH FLOW lines of the text; safetyThreshold defaults to 1000000
BuildFinancialContext(context) ==
    [i \in 1..Len(context.forecast) |->
        [week |-> context.forecast[i].week,
         flags |-> WeekFlags(context.forecast[i], context.kpis, 1000000)]]

\* destructuring succeeds on any object; forecast.length and kpis.lowestCash
\* throw a TypeError when the member is undefined
ContextThrows(context) ==
    "forecast" \notin DOMAIN context \/ "kpis" \notin DOMAIN context

\* what the dashboards pass, and what another caller may pass
Contexts ==
    {[forecast |-> forecastData, kpis |-> kpis],
     [kpis |-> kpis],
     [forecast |-> forecastData]}

\* bodies of the answer of POST /api/groq: not JSON (or empty), the JSON
\* value null, or an object whose error / response member may be missing
Bodies ==
    {[syntax |-> "invalid"], [syntax |-> "null"]}
    \cup [syntax : {"object"}, error : {"", "All models failed"},
          response : {"", "narrative"}]

FetchOutcomes ==
    {[kind |-> "rejected"]} \cup [kind : {"response"}, ok : BOOLEAN, body : Bodies]

Throw(message) == [completion |-> "thrown", error |-> [message |-> message]]
Return(value) == [completion |-> "returned", value |-> value]

\* callGroq: its catch logs and throws the error again
CallGroq(outcome) ==
    IF outcome.kind = "rejected" THEN Throw("Failed to fetch")
    ELSE IF ~outcome.ok
    THEN \* errorData = await response.json().catch(() => ({}))
         IF outcome.body.syntax = "null" THEN Throw("Cannot read properties of null")
         ELSE IF outcome.body.syntax = "object" /\ outcome.body.error # ""
         THEN Throw(outcome.body.error)
         ELSE Throw("API error: status")
    ELSE \* data = await response.json()
         IF outcome.body.syntax = "invalid" THEN Throw("Unexpected end of JSON input")
         ELSE IF outcome.body.syntax = "null" THEN Throw("Cannot read properties of null")
         ELSE IF outcome.body.response # "" THEN Return(JsString(outcome.body.response))
         ELSE Return(JsString("No response generated"))

\* error?.message || error?.toString() || 'Unknown error'
ErrorMessage(error) == IF error.message # "" THEN error.message ELSE "Error"

CatchAIError_Rethrow(fn, error) == [completion |-> "thrown", error |-> error]

\* the catch clause of generateCFOInsights and of askCFO
CatchAIError(fn, error) ==
    Return(JsString(<<IF fn = "askCFO"
                      THEN "Sorry, I encountered an error: "
                      ELSE "Unable to generate AI insights. Error: ",
                      ErrorMessage(error)>>))

\* try { ... return await callGroq(prompt) } catch (error) { return `...` }
AwaitCallGroq(fn, outcome) ==
    LET r == CallGroq(outcome)
    IN  IF r.completion = "thrown" THEN CatchAIError(fn, r.error) ELSE r

\* entry of generateCFOInsights / askCFO up to the fetch
StartAICall(fn) ==
    /\ pc = "displayed"
    /\ \E context \in Contexts :
        IF ContextThrows(context)
        THEN /\ aiResult' = CatchAIError(fn, [message |-> "Cannot read properties of undefined"])
             /\ pc' = "answered"
             /\ UNCHANGED contextText
        ELSE /\ contextText' = BuildFinancialContext(context)
             /\ aiResult' = [completion |-> "pending", fn |-> fn]
             /\ pc' = "fetching"
    /\ UNCHANGED <<source, params, tz, week, balance, draws, forecast, forecastData, kpis>>
    /\ UNCHANGED <<dashboardVars, serverVars>>

GenerateInsights == StartAICall("generateCFOInsights")

HandlePanicMode == StartAICall("askCFO")

\* the fetch settles and the function returns to the handler
GroqSettles ==
    /\ pc = "fetching"
    /\ \E outcome \in FetchOutcomes : aiResult' = AwaitCallGroq(aiResult.fn, outcome)
    /\ pc' = "answered"
    /\ UNCHANGED <<source, params, tz, week, balance, draws, forecast, forecastData, kpis>>
    /\ UNCHANGED <<contextText, dashboardVars, serverVars>>

\* the persisted dashboard has read a stored forecast of up to MaxContextWeeks
InitInsights ==
    /\ source = "stored"
    /\ \E n \in 0..MaxContextWeeks :
        \E order \in Permutations(1..n) :
            \E nets \in [1..n -> StoredNets], bals \in [1..n -> StoredBalances] :
                forecast = StoredSeries(order, nets, bals)
    /\ params = [weeks |-> Len(forecast), startDate |-> StoredStartDate,
                 startingBalance |-> 5000000,
                 revenueConfidence |-> 100, expenseBuffer |-> 100]
    /\ tz = ZoneUTC
    /\ pc = "returned"
    /\ week = 1
    /\ balance = params.startingBalance * 100
    /\ draws = <<>>
    /\ forecastData = <<>>
    /\ kpis = NoKPIs
    /\ InsightsIdle
    /\ DashboardIdle
    /\ ServerIdle

NextInsights ==
    \/ DisplayForecast
    \/ GenerateInsights
    \/ HandlePanicMode
    \/ GroqSettles

SpecInsights == InitInsights /\ [][NextInsights]_vars

(***************************************************************************)
(* Persisted dashboard: the debounced update effect and updateForecastData *)
(* A render is the state; the effect runs after a render in which one of   *)
(* revenueConfidence, expenseBuffer, startDate, forecastWeeks, forecastId  *)
(* differs from the previous render.  user and forecastId are set.         *)
(***************************************************************************)
MaxDashboardWeeks == 2

DashboardRevConf == {97, 100}
DashboardExpBuf == {90, 100}
DashboardDraws == {20, 76000}

DashboardParams ==
    [weeks : 1..MaxDashboardWeeks, startDate : StartDates, startingBalance : {5000000},
     revenueConfidence : DashboardRevConf, expenseBuffer : DashboardExpBuf]

\* generateForecastWeeks as a function of its parameters and its draws
RECURSIVE ForecastWeeksFrom(_, _, _, _, _)
ForecastWeeksFrom(p, z, ds, w, bal) ==
    IF ~LoopContinues(w, p.weeks) THEN <<>>
    ELSE LET row == ForecastWeek(p, z, w, ds[w], bal)
         IN  <<row>> \o ForecastWeeksFrom(p, z, ds, w + 1, NewBalance(bal, row.net * 100))

GenerateForecastWeeks(p, z, ds) == ForecastWeeksFrom(p, z, ds, 1, p.startingBalance * 100)

\* the argument object of updateForecast built by updateForecastData
UpdateRequest(p) ==
    [revenue_confidence |-> p.revenueConfidence, expense_buffer |-> p.expenseBuffer,
     weeks |-> p.weeks, start_date |-> p.startDate]

\* a || b on numbers
OrElse(a, b) == IF a # 0 THEN a ELSE b

\* the parameters updateForecast regenerates with; record is the updated row
RegenerateParams(req, record) ==
    [weeks |-> OrElse(req.weeks, record.weeks),
     startDate |-> OrElse(req.start_date, record.start_date),
     startingBalance |-> record.starting_balance,
     revenueConfidence |-> OrElse(req.revenue_confidence, record.revenue_confidence),
     expenseBuffer |-> OrElse(req.expense_buffer, record.expense_buffer)]

\* .update(params).eq('id', forecastId).select().single()
UpdatedRecord(req) ==
    [weeks |-> req.weeks, start_date |-> req.start_date, starting_balance |-> 5000000,
     revenue_confidence |-> req.revenue_confidence, expense_buffer |-> req.expense_buffer]

ClearTimeout_Keep(ts) == ts

\* return () => clearTimeout(timeoutId): the cleanup of the previous effect run
ClearTimeout(ts) == {}

\* the effect body, after the cleanup of the previous run
DebounceEffect(p, upd, ts) ==
    IF ~upd THEN ClearTimeout(ts) \cup {[callback |-> UpdateRequest(p)]}
    ELSE ClearTimeout(ts)

\* the dashboard has loaded its active forecast: loadInitialForecast set
\* forecastId and the parameters, so the effect has run once
InitDashboard ==
    /\ source = "service"
    /\ params \in DashboardParams
    /\ tz = ZoneUTC
    /\ \E ds \in [1..params.weeks -> DashboardDraws] :
        forecast = GenerateForecastWeeks(params, tz, ds)
    /\ forecastData = DisplayData(forecast)
    /\ kpis = CalculateKPIs(forecastData)
    /\ pc = "displayed"
    /\ week = 1
    /\ balance = params.startingBalance * 100
    /\ draws = <<>>
    /\ InsightsIdle
    /\ updating = FALSE
    /\ timers = DebounceEffect(params, updating, {})
    /\ inflight = NoRequest
    /\ burst = 0
    /\ failed = FALSE
    /\ touched = FALSE
    /\ ServerIdle

\* the user moves a slider, picks a date or a horizon: one state setter, a
\* render, then the effect
ChangeParameter ==
    /\ \E q \in DashboardParams :
        /\ Cardinality({f \in DOMAIN q : q[f] # params[f]}) = 1
        /\ params' = q
    /\ timers' = DebounceEffect(params', updating, timers)
    /\ burst' = IF updating THEN burst ELSE IF burst < 2 THEN burst + 1 ELSE burst
    /\ UNCHANGED <<source, tz, week, balance, draws, forecast, forecastData, kpis, pc>>
    /\ touched' = TRUE
    /\ UNCHANGED <<insightVars, updating, inflight, failed, serverVars>>

\* a timer expires: updateForecastData of the render that set it runs up to
\* its await
TimerFires ==
    /\ \E t \in timers :
        /\ timers' = timers \ {t}
        /\ inflight' = t.callback
    /\ inflight = NoRequest
    /\ updating' = TRUE
    /\ UNCHANGED <<forecastVars, insightVars, burst, failed, touched, serverVars>>

\* updateForecast returns the regenerated forecast: sort, map, setForecastData,
\* calculateKPIs, and finally setUpdating(false)
UpdateReturns ==
    /\ inflight # NoRequest
    /\ LET p == RegenerateParams(inflight, UpdatedRecord(inflight))
       IN  \E ds \in [1..p.weeks -> DashboardDraws] :
            /\ forecast' = GenerateForecastWeeks(p, tz, ds)
            /\ forecastData' = DisplayData(forecast')
            /\ kpis' = CalculateKPIs(forecastData')
    /\ updating' = FALSE
    /\ inflight' = NoRequest
    /\ burst' = 0
    /\ UNCHANGED <<source, params, tz, week, balance, draws, pc>>
    /\ UNCHANGED <<insightVars, timers, failed, touched, serverVars>>

\* updateForecast returns null (its catch): nothing is displayed anew
UpdateFails ==
    /\ inflight # NoRequest
    /\ failed' = TRUE
    /\ updating' = FALSE
    /\ inflight' = NoRequest
    /\ burst' = 0
    /\ UNCHANGED <<forecastVars, insightVars, timers, touched, serverVars>>

NextDashboard ==
    \/ ChangeParameter
    \/ TimerFires
    \/ UpdateReturns
    \/ UpdateFails

SpecDashboard == InitDashboard /\ [][NextDashboard]_vars

(***************************************************************************)
(* POST /api/groq (frontend/app/api/groq/route.ts): one request            *)
(***************************************************************************)
Models ==
    <<"llama-3.1-70b-versatile", "llama-3.3-70b-versatile", "llama3-70b-8192",
      "mixtral-8x7b-32768", "gemma2-9b-it">>

\* bodies of the request: not JSON, no prompt, a prompt
RequestBodies == {[syntax |-> "invalid"], [syntax |-> "object", prompt |-> ""],
                  [syntax |-> "object", prompt |-> "analyse"]}

\* what one upstream fetch can do: reject, answer with a non-OK status, or
\* answer OK with a body that is not JSON, has no choices member, has an
\* empty choices array, or has a first choice with content (maybe empty)
UpstreamOutcomes ==
    {[kind |-> "rejected"], [kind |-> "status", status |-> 429],
     [kind |-> "ok", body |-> "invalid"], [kind |-> "ok", body |-> "no choices"],
     [kind |-> "ok", body |-> "empty choices"],
     [kind |-> "ok", body |-> "content", content |-> ""],
     [kind |-> "ok", body |-> "content", content |-> "narrative"]}

\* the iteration ends in the inner catch or in the !response.ok branch
UpstreamFailed(o) ==
    o.kind \in {"rejected", "status"} \/ o.body \in {"invalid", "no choices"}

\* data.choices[0]?.message?.content || 'No response generated'
AiResponse(o) ==
    IF o.body = "content" /\ o.content # "" THEN o.content ELSE "No response generated"

\* lastError as the two failure branches record it
LastError(model, o) ==
    IF o.kind = "status" THEN [model |-> model, status |-> o.status]
    ELSE [model |-> model, status |-> 0]

NextModel_Same(i) == i

\* continue: the for loop goes to the next model
NextModel(i) == i + 1

\* lastError?.status || 500
FailureStatus(lastError) == IF lastError.status # 0 THEN lastError.status ELSE 500

InitRoute ==
    /\ ForecastIdle
    /\ InsightsIdle
    /\ DashboardIdle
    /\ ComparisonIdle
    /\ StoreIdle
    /\ \E b \in RequestBodies : route = [pc |-> "received", body |-> b]

\* request.json(), the prompt check, and the set-up of the loop
RouteReceives ==
    /\ route.pc = "received"
    /\ route' =
        IF route.body.syntax = "invalid"
        THEN [pc |-> "replied", status |-> 500, sent |-> <<>>, outcomes |-> <<>>]
        ELSE IF route.body.prompt = ""
        THEN [pc |-> "replied", status |-> 400, sent |-> <<>>, outcomes |-> <<>>]
        ELSE [pc |-> "loop", model |-> 1, sent |-> <<>>, outcomes |-> <<>>,
              lastError |-> [model |-> "", status |-> 0]]
    /\ UNCHANGED <<forecastVars, insightVars, dashboardVars, comparisonVars, storeVars>>

\* the loop body up to await fetch(...) for the current model
RouteSends ==
    /\ route.pc = "loop"
    /\ route.model <= Len(Models)
    /\ route' = [route EXCEPT !.pc = "awaiting",
                               !.sent = Append(@, Models[route.model])]
    /\ UNCHANGED <<forecastVars, insightVars, dashboardVars, comparisonVars, storeVars>>

\* the fetch settles: the rest of the loop body
UpstreamSettles ==
    /\ route.pc = "awaiting"
    /\ \E o \in UpstreamOutcomes :
        route' =
            IF UpstreamFailed(o)
            THEN [route EXCEPT !.pc = "loop",
                               !.model = NextModel(@),
                               !.outcomes = Append(@, o),
                               !.lastError = LastError(Models[route.model], o)]
            ELSE [pc |-> "replied", status |-> 200,
                  sent |-> route.sent, outcomes |-> Append(route.outcomes, o),
                  response |-> AiResponse(o), model |-> Models[route.model]]
    /\ UNCHANGED <<forecastVars, insightVars, dashboardVars, comparisonVars, storeVars>>

\* after the loop: every model failed
RouteGivesUp ==
    /\ route.pc = "loop"
    /\ route.model > Len(Models)
    /\ route' = [pc |-> "replied", status |-> FailureStatus(route.lastError),
                 sent |-> route.sent, outcomes |-> route.outcomes]
    /\ UNCHANGED <<forecastVars, insightVars, dashboardVars, comparisonVars, storeVars>>

NextRoute ==
    \/ RouteReceives
    \/ RouteSends
    \/ UpstreamSettles
    \/ RouteGivesUp

SpecRoute == InitRoute /\ [][NextRoute]_vars

(***************************************************************************)
(* Actuals vs forecast: generateComparison over the stored weeks of the    *)
(* active forecast and the transactions of the range, on a UTC host (a     *)
(* date is its day number and a week window is 7 consecutive days)         *)
(***************************************************************************)
MaxCompareWeeks == 2
MaxCompareStored == 2
WeekLimit == 52

CompareStart == StoredStartDate
CompareEnds == {CompareStart + 7 * k - 1 : k \in 1..MaxCompareWeeks}
CompareDates == {CompareStart, CompareStart + 6, CompareStart + 7, CompareStart + 70}
CompareNets == {-50, 0, 100}

\* forecast_weeks (week_number, week_date, net) as the query returns them
CompareStoredWeek(i, date, net) == [week_number |-> i, week_date |-> date, net |-> net]

CompareTransactions ==
    {[transaction_date |-> CompareStart + 1, type |-> "Inflow", amount |-> 300],
     [transaction_date |-> CompareStart + 8, type |-> "Outflow", amount |-> 120]}

\* baseInflow - baseOutflow of the page's generateMockForecast
MockForecastNet(weekNum) == 900000 - (IF weekNum % 2 = 0 THEN 1000000 ELSE 400000)

InWindow(date, windowStart) == date >= windowStart /\ date <= windowStart + 6

\* forecastWeeks.find(fw => fwDate >= currentWeekStart && fwDate <= currentWeekEnd)
RECURSIVE FindForecastWeek(_, _)
FindForecastWeek(forecastWeeks, windowStart) ==
    IF forecastWeeks = <<>> THEN [found |-> FALSE]
    ELSE IF InWindow(Head(forecastWeeks).week_date, windowStart)
    THEN [found |-> TRUE, net |-> Head(forecastWeeks).net]
    ELSE FindForecastWeek(Tail(forecastWeeks), windowStart)

\* forecastWeek?.net || generateMockForecast(weekNum)
ForecastedNet(fw, weekNum) ==
    IF fw.found /\ fw.net # 0 THEN fw.net ELSE MockForecastNet(weekNum)

RECURSIVE SumAmounts(_)
SumAmounts(ts) ==
    IF ts = {} THEN 0
    ELSE LET t == CHOOSE x \in ts : TRUE IN t.amount + SumAmounts(ts \ {t})

ActualNet(ts, windowStart) ==
    LET inWeek == {t \in ts : InWindow(t.transaction_date, windowStart)}
    IN  SumAmounts({t \in inWeek : t.type = "Inflow"})
        - SumAmounts({t \in inWeek : t.type = "Outflow"})

\* Math.round(variancePct * 10), the percentage in tenths
VariancePctTenths(variance, forecastedNet) ==
    IF forecastedNet = 0 THEN 0
    ELSE (2 * variance * 1000 + Abs(forecastedNet)) \div (2 * Abs(forecastedNet))

ComparisonRow(ts, forecastWeeks, weekNum, windowStart) ==
    LET actualNet == ActualNet(ts, windowStart)
        forecastedNet == ForecastedNet(FindForecastWeek(forecastWeeks, windowStart), weekNum)
    IN  [week |-> WeekLabel(weekNum, windowStart),
         weekNumber |-> weekNum,
         forecasted |-> forecastedNet,
         actual |-> actualNet,
         variance |-> actualNet - forecastedNet,
         variancePct |-> VariancePctTenths(actualNet - forecastedNet, forecastedNet)]

\* loadComparison has read the stored weeks and the transactions and enters
\* generateComparison
InitComparison ==
    /\ ForecastIdle
    /\ InsightsIdle
    /\ DashboardIdle
    /\ RouteIdle
    /\ StoreIdle
    /\ transactions \in SUBSET CompareTransactions
    /\ \E n \in 0..MaxCompareStored :
        \E dates \in [1..n -> CompareDates], nets \in [1..n -> CompareNets] :
            \E end \in CompareEnds :
                comparison =
                    [pc |-> "loop",
                     forecastWeeks |-> [i \in 1..n |-> CompareStoredWeek(i, dates[i], nets[i])],
                     start |-> CompareStart, end |-> end,
                     weekNum |-> 1, currentWeekStart |-> CompareStart, weeks |-> <<>>]

\* one iteration of the while loop
ComparisonWeek ==
    /\ comparison.pc = "loop"
    /\ comparison.currentWeekStart <= comparison.end
    /\ comparison' =
        [comparison EXCEPT
            !.weeks = Append(@, ComparisonRow(transactions, comparison.forecastWeeks,
                                              comparison.weekNum,
                                              comparison.currentWeekStart)),
            !.currentWeekStart = @ + 6 + 1,
            !.weekNum = @ + 1,
            !.pc = IF comparison.weekNum + 1 > WeekLimit THEN "done" ELSE "loop"]
    /\ UNCHANGED <<forecastVars, insightVars, dashboardVars, transactions, route, storeVars>>

\* the loop ends: return weeks, setComparisonData
ComparisonReturn ==
    /\ comparison.pc = "loop"
    /\ ~(comparison.currentWeekStart <= comparison.end)
    /\ comparison' = [comparison EXCEPT !.pc = "done"]
    /\ UNCHANGED <<forecastVars, insightVars, dashboardVars, transactions, route, storeVars>>

NextComparison ==
    \/ ComparisonWeek
    \/ ComparisonReturn

SpecComparison == InitComparison /\ [][NextComparison]_vars

(***************************************************************************)
(* Persistence: getOrCreateActiveForecast and updateForecast of            *)
(* forecast-service.ts and saveManualForecast of the actuals page, run by  *)
(* concurrent callers (tabs, effects) of one user against the forecasts    *)
(* and forecast_weeks tables.  Every awaited statement is one step; a      *)
(* statement fails when the database or the network refuses it.  The       *)
(* tables are sets of rows; forecast_weeks is UNIQUE on (forecast_id,      *)
(* week_number) and a multi-row insert is one statement.                   *)
(***************************************************************************)
MaxForecasts == 2
MaxStoreWeeks == 2
MaxManualWeeks == 2

Callers == {"a", "b"}
StoreDraws == {20, 76000}
ManualNets == {-50, 0}

\* weeks: 13 of the default forecast
DefaultWeeks == 13

\* new Date().toISOString().split('T')[0]
Today == StoredStartDate

Idle == [pc |-> "idle"]
Null == [isNull |-> TRUE]

\* the parameters of the default forecast
DefaultParams ==
    [weeks |-> DefaultWeeks, startDate |-> Today, startingBalance |-> 5000000,
     revenueConfidence |-> 100, expenseBuffer |-> 100]

\* newForecast, with the id the database gives it
NewForecast(id) ==
    [id |-> id, start_date |-> Today, weeks |-> DefaultWeeks, starting_balance |-> 5000000,
     revenue_confidence |-> 100, expense_buffer |-> 100, is_active |-> TRUE]

\* the objects updateForecastData passes to updateForecast
StoreRequests ==
    {UpdateRequest(p) :
        p \in [weeks : 1..MaxStoreWeeks, startDate : {Today}, startingBalance : {5000000},
               revenueConfidence : {100}, expenseBuffer : {100}]}

\* weeks.map(week => ({ forecast_id, ...week })); is_manual defaults to false
WeekData(fid, weeks) ==
    {[forecast_id |-> fid, week_number |-> weeks[i].week_number,
      week_date |-> weeks[i].week_date, inflow |-> weeks[i].inflow,
      outflow |-> weeks[i].outflow, net |-> weeks[i].net, balance |-> weeks[i].balance,
      is_manual |-> FALSE] : i \in 1..Len(weeks)}

\* the row saveManualForecast upserts for one week of manualForecastData
ManualRow(fid, w, net) ==
    [forecast_id |-> fid, week_number |-> w, week_date |-> CompareStart + (w - 1) * 7,
     inflow |-> IF net > 0 THEN net ELSE 0, outflow |-> IF net < 0 THEN 0 - net ELSE 0,
     net |-> net, balance |-> 0, is_manual |-> TRUE]

\* .eq('forecast_id', forecastId)
WeeksOf(fid) == {r \in weeksTable : r.forecast_id = fid}

\* the constraint unique_forecast_week
UniqueViolation(rows) ==
    \E r \in rows, s \in weeksTable :
        r.forecast_id = s.forecast_id /\ r.week_number = s.week_number

\* .upsert(row, { onConflict: 'forecast_id,week_number' })
Upsert(row) ==
    {s \in weeksTable : ~(s.forecast_id = row.forecast_id /\ s.week_number = row.week_number)}
        \cup {row}

\* .eq('is_active', true)
ActiveForecasts == {f \in forecastsTable : f.is_active}

\* .order('created_at', { ascending: false }).limit(1): ids grow with created_at
Newest(fs) == CHOOSE f \in fs : \A g \in fs : g.id <= f.id

\* the call returns: of its value, whether it is null and whose forecast it is
Finish(c, op, result) == calls' = [calls EXCEPT ![c] = [pc |-> "done", op |-> op, result |-> result]]

\* a forecast row, returned joined with its forecast_weeks
Returned(f) == [isNull |-> FALSE, id |-> f.id]

\* the other components are not involved
StoreOnly == UNCHANGED <<forecastVars, insightVars, dashboardVars, comparisonVars, route>>

Free(c) == calls[c].pc \in {"idle", "done"}

\* a new user opens the application: no forecast is stored, nothing runs
InitCreate ==
    /\ ForecastIdle
    /\ InsightsIdle
    /\ DashboardIdle
    /\ ComparisonIdle
    /\ RouteIdle
    /\ forecastsTable = {}
    /\ weeksTable = {}
    /\ calls = [c \in Callers |-> Idle]

\* getOrCreateActiveForecast(userId) is called and sends its lookup
GetOrCreateStarts(c) ==
    /\ Free(c)
    /\ calls' = [calls EXCEPT ![c] = [pc |-> "lookup"]]
    /\ UNCHANGED <<forecastsTable, weeksTable>>
    /\ StoreOnly

\* the lookup settles: if (existingForecast && !fetchError) return it
LookupSettles(c) ==
    /\ calls[c].pc = "lookup"
    /\ \E fetchError \in BOOLEAN :
        IF ~fetchError /\ ActiveForecasts # {}
        THEN Finish(c, "getOrCreate", Returned(Newest(ActiveForecasts)))
        ELSE calls' = [calls EXCEPT ![c] = [pc |-> "insertForecast"]]
    /\ UNCHANGED <<forecastsTable, weeksTable>>
    /\ StoreOnly

\* .from('forecasts').insert([newForecast]).select().single()
InsertForecastSettles(c) ==
    /\ calls[c].pc = "insertForecast"
    /\ \E createError \in BOOLEAN :
        IF createError
        THEN /\ Finish(c, "getOrCreate", Null)
             /\ UNCHANGED forecastsTable
        ELSE /\ Cardinality(forecastsTable) < MaxForecasts
             /\ LET id == Cardinality(forecastsTable) + 1
                IN  /\ forecastsTable' = forecastsTable \cup {NewForecast(id)}
                    /\ calls' = [calls EXCEPT ![c] = [pc |-> "insertDefaultWeeks", id |-> id]]
    /\ UNCHANGED weeksTable
    /\ StoreOnly

\* the default weeks are generated and inserted
InsertDefaultWeeksSettles(c) ==
    /\ calls[c].pc = "insertDefaultWeeks"
    /\ \E weeksError \in BOOLEAN, d \in StoreDraws :
        LET weekData == WeekData(calls[c].id,
                                 GenerateForecastWeeks(DefaultParams, ZoneUTC,
                                                       [w \in 1..DefaultWeeks |-> d]))
        IN  IF weeksError \/ UniqueViolation(weekData)
            THEN /\ Finish(c, "getOrCreate", Null)
                 /\ UNCHANGED weeksTable
            ELSE /\ weeksTable' = weeksTable \cup weekData
                 /\ calls' = [calls EXCEPT ![c] = [pc |-> "fetchCreated", id |-> calls[c].id]]
    /\ UNCHANGED forecastsTable
    /\ StoreOnly

\* the complete forecast is fetched and returned; its error is not read
CreateReturns(c) ==
    /\ calls[c].pc = "fetchCreated"
    /\ \E fetched \in BOOLEAN :
        IF fetched
        THEN \E f \in forecastsTable :
                /\ f.id = calls[c].id
                /\ Finish(c, "getOrCreate", Returned(f))
        ELSE Finish(c, "getOrCreate", Null)
    /\ UNCHANGED <<forecastsTable, weeksTable>>
    /\ StoreOnly

\* updateForecast(forecastId, params) is called and sends its update
UpdateForecastStarts(c) ==
    /\ Free(c)
    /\ \E f \in forecastsTable, req \in StoreRequests :
        calls' = [calls EXCEPT ![c] = [pc |-> "updateRecord", id |-> f.id, params |-> req]]
    /\ UNCHANGED <<forecastsTable, weeksTable>>
    /\ StoreOnly

\* .update(params).eq('id', forecastId).select().single(); if (updateError) throw
UpdateRecordSettles(c) ==
    /\ calls[c].pc = "updateRecord"
    /\ \E updateError \in BOOLEAN :
        IF updateError
        THEN /\ Finish(c, "update", Null)
             /\ UNCHANGED forecastsTable
        ELSE \E f \in forecastsTable :
                /\ f.id = calls[c].id
                /\ LET updated == [f EXCEPT !.weeks = calls[c].params.weeks,
                                           !.start_date = calls[c].params.start_date,
                                           !.revenue_confidence = calls[c].params.revenue_confidence,
                                           !.expense_buffer = calls[c].params.expense_buffer]
                   IN  /\ forecastsTable' = (forecastsTable \ {f}) \cup {updated}
                       /\ calls' = [calls EXCEPT ![c] =
                                        [pc |-> "deleteWeeks", id |-> f.id,
                                         params |-> calls[c].params, forecast |-> updated]]
    /\ UNCHANGED weeksTable
    /\ StoreOnly

\* await ...delete().eq('forecast_id', forecastId): the result is dropped
DeleteResult(c, deleted) ==
    calls' = [calls EXCEPT ![c] = [@ EXCEPT !.pc = "insertWeeks"] @@ [deleted |-> deleted]]

\* the delete of the existing weeks settles
DeleteWeeksSettles(c) ==
    /\ calls[c].pc = "deleteWeeks"
    /\ \E deleted \in BOOLEAN :
        /\ weeksTable' = IF deleted THEN weeksTable \ WeeksOf(calls[c].id) ELSE weeksTable
        /\ DeleteResult(c, deleted)
    /\ UNCHANGED forecastsTable
    /\ StoreOnly

\* the new weeks are generated and inserted; the result is dropped
InsertWeeksSettles(c) ==
    /\ calls[c].pc = "insertWeeks"
    /\ \E refused \in BOOLEAN, d \in StoreDraws :
        LET p == RegenerateParams(calls[c].params, calls[c].forecast)
            weekData == WeekData(calls[c].id,
                                 GenerateForecastWeeks(p, ZoneUTC, [w \in 1..p.weeks |-> d]))
            inserted == ~refused /\ ~UniqueViolation(weekData)
        IN  /\ weeksTable' = IF inserted THEN weeksTable \cup weekData ELSE weeksTable
            /\ calls' = [calls EXCEPT ![c] =
                            [pc |-> "fetchUpdated", id |-> calls[c].id,
                             deleted |-> calls[c].deleted, inserted |-> inserted]]
    /\ UNCHANGED forecastsTable
    /\ StoreOnly

\* the updated forecast is fetched and returned; its error is not read
UpdateForecastReturns(c) ==
    /\ calls[c].pc = "fetchUpdated"
    /\ \E fetched \in BOOLEAN :
        IF fetched
        THEN \E f \in forecastsTable :
                /\ f.id = calls[c].id
                /\ Finish(c, "update", Returned(f))
        ELSE Finish(c, "update", Null)
    /\ UNCHANGED <<forecastsTable, weeksTable>>
    /\ StoreOnly

\* saveManualForecast() is called with the manualForecastData of the page
SaveManualStarts(c) ==
    /\ Free(c)
    /\ \E f \in forecastsTable, n \in 1..MaxManualWeeks :
        \E nets \in [1..n -> ManualNets] :
            calls' = [calls EXCEPT ![c] =
                        [pc |-> "upsert", id |-> f.id,
                         manualForecastData |-> [w \in 1..n |-> [weekNumber |-> w,
                                                                forecastedNet |-> nets[w]]],
                         next |-> 1]]
    /\ UNCHANGED <<forecastsTable, weeksTable>>
    /\ StoreOnly

\* one upsert of the for loop settles; an error is only logged
UpsertSettles(c) ==
    /\ calls[c].pc = "upsert"
    /\ LET item == calls[c].manualForecastData[calls[c].next]
           last == calls[c].next = Len(calls[c].manualForecastData)
       IN  /\ \E error \in BOOLEAN :
                weeksTable' = IF error THEN weeksTable
                              ELSE Upsert(ManualRow(calls[c].id, item.weekNumber,
                                                    item.forecastedNet))
           /\ IF last THEN Finish(c, "saveManual", Null)
              ELSE calls' = [calls EXCEPT ![c].next = @ + 1]
    /\ UNCHANGED forecastsTable
    /\ StoreOnly

NextCreate ==
    \E c \in Callers :
        \/ GetOrCreateStarts(c)
        \/ LookupSettles(c)
        \/ InsertForecastSettles(c)
        \/ InsertDefaultWeeksSettles(c)
        \/ CreateReturns(c)

SpecCreate == InitCreate /\ [][NextCreate]_vars

\* the pages have loaded: getOrCreateActiveForecast created and returned the
\* default forecast of the user, nothing runs
InitStore ==
    /\ ForecastIdle
    /\ InsightsIdle
    /\ DashboardIdle
    /\ ComparisonIdle
    /\ RouteIdle
    /\ forecastsTable = {NewForecast(1)}
    /\ \E d \in StoreDraws :
        weeksTable = WeekData(1, GenerateForecastWeeks(DefaultParams, ZoneUTC,
                                                       [w \in 1..DefaultWeeks |-> d]))
    /\ calls = [c \in Callers |-> Idle]

NextStore ==
    \E c \in Callers :
        \/ UpdateForecastStarts(c)
        \/ UpdateRecordSettles(c)
        \/ DeleteWeeksSettles(c)
        \/ InsertWeeksSettles(c)
        \/ UpdateForecastReturns(c)
        \/ SaveManualStarts(c)
        \/ UpsertSettles(c)

SpecStore == InitStore /\ [][NextStore]_vars

(***************************************************************************)
(* Properties of the projection generator                                  *)
(***************************************************************************)
Generators == {"service", "mvp", "persisted"}

\* the balance (in whole units) that period i of the service forecast started from
BalanceBefore(i) == IF i = 1 THEN params.startingBalance ELSE forecast[i - 1].balance

\* C1: for every horizon h >= 1 generateForecastWeeks returns exactly h periods
\* whose week_number values are 1, 2, ..., h in that order.
C1_ExactlyHorizonPeriods ==
    (source = "service" /\ pc # "loop" /\ params.weeks >= 1) =>
        /\ Len(forecast) = params.weeks
        /\ \A i \in 1..Len(forecast) : forecast[i].week_number = i

C1_Witness ==
    /\ source = "service"
    /\ pc = "returned"
    /\ params.weeks = MaxWeeks
    /\ Len(forecast) = MaxWeeks
    /\ forecast[MaxWeeks].week_number = MaxWeeks

\* C2: in the output of generateForecastWeeks the reported balance is the exact
\* running sum of the reported nets: balance[1] = startingBalance + net[1] and
\* balance[i] = balance[i-1] + net[i] for i > 1.
C2_BalanceIsRunningSum ==
    source = "service" =>
        \A i \in 1..Len(forecast) : forecast[i].balance = BalanceBefore(i) + forecast[i].net

C2_Witness ==
    /\ source = "service"
    /\ pc = "returned"
    /\ Len(forecast) >= 2
    /\ InflowCents(ServiceBaseline, draws[2], params.revenueConfidence) % 100 # 0
    /\ forecast[2].net < 0
    /\ forecast[2].balance = forecast[1].balance + forecast[2].net

\* C3: in every period produced by generateForecastWeeks and by both
\* generateMockForecast copies the reported net equals the reported (rounded)
\* inflow minus the reported (rounded) outflow exactly.
C3_NetIsInflowMinusOutflow ==
    source \in Generators =>
        \A i \in 1..Len(forecast) :
            forecast[i].net = forecast[i].inflow - forecast[i].outflow

\* a mock period whose unrounded inflow has a fractional part and whose net is negative
C3_Witness ==
    /\ source \in {"mvp", "persisted"}
    /\ Len(forecast) >= 2
    /\ InflowCents(Baseline(source), draws[2], params.revenueConfidence) % 100 # 0
    /\ forecast[2].net < 0
    /\ forecast[2].net = forecast[2].inflow - forecast[2].outflow

\* C4: calling the projection generator with a non-positive horizon fails with an
\* InvalidParameter error; it never returns a result, in particular never an
\* empty series.
C4_NonPositiveHorizonNeverReturns ==
    ~(source = "service" /\ params.weeks <= 0 /\ pc = "returned")

\* C5: for every input the generator accepts, zero or negative percentages
\* included, every generated period has inflow >= 0 and outflow >= 0.
C5_FlowsNonNegative ==
    source = "service" =>
        \A i \in 1..Len(forecast) : forecast[i].inflow >= 0 /\ forecast[i].outflow >= 0

\* C6: the output of the generator depends on nothing but the parameters and the
\* random draws: a run with the same parameters and draws on any host returns the
\* same series, every field of every period equal.
C6_OutputDependsOnParamsAndDrawsOnly ==
    source = "service" =>
        \A i \in 1..Len(forecast) : \A z \in Zones :
            forecast[i] = ForecastWeek(params, z, i, draws[i], BalanceBefore(i) * 100)

\* C7: with horizon, start date, starting balance and draws fixed, raising
\* revenueConfidence never lowers the rounded inflow of any period and raising
\* expenseBuffer never lowers the rounded outflow of any period.
C7_MonotonicScenarioEffect ==
    source = "service" =>
        \A i \in 1..Len(forecast) :
            /\ \A rc \in RevConfValues :
                rc >= params.revenueConfidence =>
                    MathRound(InflowCents(ServiceBaseline, draws[i], rc)) >= forecast[i].inflow
            /\ \A eb \in ExpBufValues :
                eb >= params.expenseBuffer =>
                    MathRound(OutflowCents(ServiceBaseline, i, eb)) >= forecast[i].outflow

C7_Witness ==
    /\ source = "service"
    /\ Len(forecast) >= 2
    /\ \E rc \in RevConfValues :
        /\ rc > params.revenueConfidence
        /\ MathRound(InflowCents(ServiceBaseline, draws[2], rc)) > forecast[2].inflow
    /\ \E eb \in ExpBufValues :
        /\ eb > params.expenseBuffer
        /\ MathRound(OutflowCents(ServiceBaseline, 2, eb)) > forecast[2].outflow

(***************************************************************************)
(* Properties of the KPI derivation                                        *)
(***************************************************************************)
\* the periods of the displayed series that burn cash
BurnPeriods == {i \in 1..Len(forecastData) : forecastData[i].net < 0}

\* sum of |net| over the burning periods among the first n displayed periods
RECURSIVE BurnTotal(_)
BurnTotal(n) ==
    IF n = 0 THEN 0
    ELSE BurnTotal(n - 1) + (IF n \in BurnPeriods THEN Abs(forecastData[n].net) ELSE 0)

\* C8: the lowest-balance KPI is the minimum balance over all periods and the
\* lowest-week KPI is the smallest period index whose balance equals that
\* minimum, for every non-empty series.
C8_LowestIsFirstArgmin ==
    (pc = "displayed" /\ forecastData # <<>>) =>
        /\ \A i \in 1..Len(forecastData) : kpis.lowestCash <= forecastData[i].balance
        /\ \E i \in 1..Len(forecastData) :
            /\ forecastData[i].balance = kpis.lowestCash
            /\ forecastData[i].weekNumber = kpis.lowestWeek
        /\ \A j \in 1..Len(forecastData) :
            forecastData[j].balance = kpis.lowestCash =>
                kpis.lowestWeek <= forecastData[j].weekNumber

\* the minimum is reached twice, first at a period that is not the first one
C8_Witness ==
    /\ pc = "displayed"
    /\ Len(forecastData) >= 3
    /\ kpis.lowestWeek = 2
    /\ forecastData[3].balance = kpis.lowestCash
    /\ forecastData[1].balance > kpis.lowestCash

\* C9: the average burn rate equals the arithmetic mean of |net| over exactly the
\* periods with net < 0, and equals 0 when no period has net < 0.
C9_AverageBurnIsMeanOfBurns ==
    pc = "displayed" =>
        LET avg == AvgBurnRate(forecastData)
        IN  IF BurnPeriods = {}
            THEN avg.num = 0 /\ kpis.burnRate = 0
            ELSE /\ avg.num * Cardinality(BurnPeriods) = avg.den * BurnTotal(Len(forecastData))
                 /\ 2 * Cardinality(BurnPeriods) * kpis.burnRate
                        <= 2 * BurnTotal(Len(forecastData)) + Cardinality(BurnPeriods)
                 /\ 2 * Cardinality(BurnPeriods) * (kpis.burnRate + 1)
                        > 2 * BurnTotal(Len(forecastData)) + Cardinality(BurnPeriods)

\* burning and non-burning periods mixed, the mean not a whole number
C9_Witness ==
    /\ pc = "displayed"
    /\ Cardinality(BurnPeriods) = 2
    /\ Len(forecastData) = 3
    /\ BurnTotal(3) % 2 = 1
    /\ 2 * kpis.burnRate = BurnTotal(3) + 1

\* C10: runway equals floor(balance of the final period / average burn rate)
\* whenever the average burn rate is > 0, and is the no-burn value 99 when every
\* net is >= 0.
C10_RunwayFromFinalPeriodBalance ==
    pc = "displayed" =>
        IF BurnPeriods = {}
        THEN kpis.runway = 99
        ELSE kpis.runway =
                (forecastData[Len(forecastData)].balance * Cardinality(BurnPeriods))
                    \div BurnTotal(Len(forecastData))

(***************************************************************************)
(* Threshold KPIs                                                          *)
(***************************************************************************)
\* the cutoffs each copy of the KPI derivation compares with
SafetyCutoff == IF source = "mvp" THEN 50000 ELSE 1000000
PayrollCutoff == IF source = "mvp" THEN 100000 ELSE 2000000
UpperCutoff == IF source = "mvp" THEN 30000 ELSE 600000
LowerCutoff == IF source = "mvp" THEN 15000 ELSE 300000

\* C11: the below-threshold KPI is the number of periods whose balance is
\* strictly less than the safety threshold; a balance equal to the threshold
\* is not counted.
C11_BelowThresholdCountsStrictlyLess ==
    pc = "displayed" =>
        kpis.belowThreshold =
            Len(forecastData)
              - Cardinality({i \in 1..Len(forecastData) :
                                forecastData[i].balance >= SafetyCutoff})

C11_Witness ==
    /\ pc = "displayed"
    /\ \E i, j \in 1..Len(forecastData) :
        /\ forecastData[i].balance = SafetyCutoff
        /\ forecastData[j].balance < SafetyCutoff
    /\ kpis.belowThreshold = 1

\* C12: the payroll-risk KPI is the number of periods at the 1st, 3rd, 5th, ...
\* position of the displayed series whose balance is strictly less than the
\* payroll threshold; a period at the 2nd, 4th, ... position is never counted.
C12_PayrollRiskCountsOddOrdinals ==
    pc = "displayed" =>
        kpis.payrollRisk =
            Cardinality({k \in 0..Len(forecastData) :
                            /\ 2 * k + 1 <= Len(forecastData)
                            /\ ~(forecastData[2 * k + 1].balance >= PayrollCutoff)})

C12_Witness ==
    /\ pc = "displayed"
    /\ Len(forecastData) >= 3
    /\ forecastData[1].balance = PayrollCutoff
    /\ forecastData[2].balance < PayrollCutoff
    /\ forecastData[3].balance < PayrollCutoff
    /\ kpis.payrollRisk = 1

\* average burn rates around the cutoffs of every copy, as amounts
BurnLevels == {0, 15000, 15001, 30000, 30001, 300000, 300001, 600000, 600001}

Band(v) == CASE v = "Low" -> 0 [] v = "Medium" -> 1 [] v = "High" -> 2

BandOfLevel(a) == IF a > UpperCutoff THEN 2 ELSE IF a > LowerCutoff THEN 1 ELSE 0

\* C13: volatility is High when the average burn rate is strictly above the
\* upper cutoff, Medium when it is strictly above the lower cutoff and not
\* above the upper one, Low otherwise; a larger average burn rate never gets
\* a lower band.
C13_VolatilityBands ==
    pc = "displayed" =>
        LET n == Cardinality(BurnPeriods)
            total == BurnTotal(Len(forecastData))
        IN  /\ kpis.volatility \in {"Low", "Medium", "High"}
            /\ kpis.volatility = "High" <=> (n > 0 /\ total > UpperCutoff * n)
            /\ kpis.volatility = "Medium" <=>
                   (n > 0 /\ total > LowerCutoff * n /\ total <= UpperCutoff * n)
            /\ \A a \in BurnLevels :
                   /\ (n = 0 \/ a * n >= total) => BandOfLevel(a) >= Band(kpis.volatility)
                   /\ (n > 0 /\ a * n <= total) => BandOfLevel(a) <= Band(kpis.volatility)

C13_Witness ==
    /\ pc = "displayed"
    /\ BurnPeriods # {}
    /\ BurnTotal(Len(forecastData)) = LowerCutoff * Cardinality(BurnPeriods)
    /\ kpis.volatility = "Low"

\* C14: the KPI derivation produces no KPI set for an empty period sequence.
C14_EmptySeriesYieldsNoKPISet ==
    (pc = "displayed" /\ source \in {"service", "stored"}) => forecastData # <<>>

\* C15: for the hand-entered series (nets +100, -50, -200, +10, balances 1100,
\* 1050, 850, 860) the KPI set has lowest balance 850 at period 3, average
\* burn rate 125 and a below-threshold count of 2, the count for threshold 900.
C15_HandSeriesKPIs ==
    (pc = "displayed" /\ forecast = HandSeries) =>
        /\ kpis.lowestCash = 850
        /\ kpis.lowestWeek = 3
        /\ kpis.burnRate = 125
        /\ kpis.belowThreshold = 2

\* C20: in the rows of a mock forecast each reported balance is the previous
\* reported balance (the starting balance for the first row) plus the
\* reported net of the row.
C20_MockBalanceChainsReportedNets ==
    (pc = "displayed" /\ source \in {"mvp", "persisted"}) =>
        \A i \in 1..Len(forecastData) :
            forecastData[i].balance = BalanceBefore(i) + forecastData[i].net

(***************************************************************************)
(* Narrative insights                                                      *)
(***************************************************************************)
CriticalLines == {i \in 1..Len(contextText) : \E j \in 1..Len(contextText[i].flags) :
                                                  contextText[i].flags[j] = "CRITICAL"}

\* C16: the text built for a non-empty displayed forecast flags as lowest
\* exactly one period, the one whose number is the KPI lowest week.
C16_ContextFlagsTheLowestWeek ==
    (pc \in {"fetching", "answered"} /\ contextText # <<>>) =>
        /\ Cardinality(CriticalLines) = 1
        /\ CriticalLines = {i \in 1..Len(forecastData) :
                               forecastData[i].weekNumber = kpis.lowestWeek}

\* C17: whatever the fetch does and whatever context is passed,
\* generateCFOInsights and askCFO complete by returning a string.
C17_InsightsAlwaysReturnAString ==
    pc = "answered" => (aiResult.completion = "returned" /\ aiResult.value.type = "string")

C17_Witness ==
    /\ pc = "answered"
    /\ contextText # <<>>
    /\ aiResult.completion = "returned"
    /\ aiResult.value = JsString(<<"Sorry, I encountered an error: ", "Unexpected end of JSON input">>)

(***************************************************************************)
(* Debounced regeneration on the persisted dashboard                       *)
(***************************************************************************)
\* the displayed rows are rows of a forecast generated with parameters p
GeneratedWith(p) ==
    /\ Len(forecastData) = p.weeks
    /\ \A i \in 1..Len(forecastData) :
        /\ forecastData[i].week = WeekLabel(i, p.startDate + (i - 1) * 7)
        /\ forecastData[i].outflow * 100 = OutflowCents(ServiceBaseline, i, p.expenseBuffer)
        /\ \E r \in DashboardDraws :
            forecastData[i].inflow =
                MathRound(InflowCents(ServiceBaseline, r, p.revenueConfidence))

\* C18: once no timer is pending and no update is in flight, and no update
\* has failed, the displayed forecast is one generated with the parameter
\* values the dashboard holds.
C18_SettledDisplayUsesLatestParameters ==
    (timers = {} /\ inflight = NoRequest /\ ~failed) => GeneratedWith(params)

\* C19: a change cancels the timer of the change before it, at most one timer
\* is pending, and an updateForecast call is issued with the current values
\* of the parameters and leaves no timer behind.
C19_BurstIssuesOneCallWithLastValues ==
    [][/\ (params' # params) => \A t \in timers : t \notin timers'
       /\ Cardinality(timers') <= 1
       /\ (inflight' # inflight /\ inflight' # NoRequest) =>
              (inflight' = UpdateRequest(params) /\ timers' = {})]_vars

C19_Witness ==
    /\ burst = 2
    /\ inflight = UpdateRequest(params)
    /\ updating
    /\ timers = {}
    /\ ~GeneratedWith(params)

(***************************************************************************)
(* Random jitter and payroll cadence                                       *)
(***************************************************************************)
\* C21: the outflow of a period depends on the random source: for a returned
\* period some other draw gives the period a different outflow.
C21_OutflowVariesWithDraw ==
    (pc = "returned" /\ source = "service" /\ forecast # <<>>) =>
        \E i \in 1..Len(forecast) : \E r \in Draws :
            ForecastWeek(params, tz, i, r, BalanceBefore(i) * 100).outflow
                # forecast[i].outflow

\* the larger of the two alternating baseline outflows of a generator
PayrollOutflow(cfg) ==
    IF cfg.evenOutflow > cfg.oddOutflow THEN cfg.evenOutflow ELSE cfg.oddOutflow

\* C22: every period the payroll-risk count can include (1st, 3rd, ... row)
\* is a period to which the generator applies the larger baseline outflow.
C22_PayrollRiskPeriodsArePayrollPeriods ==
    (pc = "displayed" /\ source \in Generators) =>
        \A i \in 1..Len(forecastData) :
            ((i - 1) % 2 = 0 /\ forecastData[i].balance < PayrollCutoff) =>
                BaseOutflow(Baseline(source), forecastData[i].weekNumber)
                    = PayrollOutflow(Baseline(source))

(***************************************************************************)
(* Opening the dashboard; the runway sentinel                              *)
(***************************************************************************)
\* C29: as long as the user has changed no parameter since the dashboard
\* loaded the active forecast, no updateForecast call is issued.
C29_OpeningIssuesNoUpdate ==
    ~touched => (inflight = NoRequest /\ ~updating)

\* C30: the runway is the sentinel 99 exactly when no period has net < 0.
C30_SentinelOnlyWithoutBurn ==
    pc = "displayed" => (kpis.runway = 99 <=> BurnPeriods = {})

(***************************************************************************)
(* Model fallback of the Groq route                                        *)
(***************************************************************************)
\* C25: the upstream requests go to the candidate models in their listed
\* order, one per model; a request is sent only when every earlier one
\* failed; the first success ends the loop and its text and model are
\* returned.
C25_ModelsTriedInOrderUntilFirstSuccess ==
    route.pc \in {"loop", "awaiting", "replied"} =>
        /\ Len(route.sent) <= Len(Models)
        /\ \A i \in 1..Len(route.sent) : route.sent[i] = Models[i]
        /\ \A i \in 1..Len(route.outcomes) :
            i < Len(route.sent) => UpstreamFailed(route.outcomes[i])
        /\ (\E i \in 1..Len(route.outcomes) : ~UpstreamFailed(route.outcomes[i])) =>
            /\ route.pc = "replied"
            /\ route.status = 200
            /\ Len(route.outcomes) = Len(route.sent)
            /\ route.model = route.sent[Len(route.sent)]
            /\ LET o == route.outcomes[Len(route.outcomes)]
               IN  route.response =
                       IF o.body = "content" /\ o.content # "" THEN o.content
                       ELSE "No response generated"
        /\ (route.pc = "replied" /\ route.status = 200) =>
            (route.outcomes # <<>> /\ ~UpstreamFailed(route.outcomes[Len(route.outcomes)]))

C25_Witness ==
    /\ route.pc = "replied"
    /\ route.status = 200
    /\ Len(route.sent) = 3
    /\ route.model = "llama3-70b-8192"
    /\ route.response = "narrative"

(***************************************************************************)
(* Actuals vs forecast                                                     *)
(***************************************************************************)
\* nets of the stored weeks dated inside the window of comparison week k
StoredNetsOfWeek(k) ==
    {comparison.forecastWeeks[i].net : i \in
        {j \in 1..Len(comparison.forecastWeeks) :
            InWindow(comparison.forecastWeeks[j].week_date, comparison.start + 7 * (k - 1))}}

\* C23: a comparison week with a stored forecast week dated in its window
\* shows that stored net as forecasted, whatever its value; the synthetic
\* value is shown only for a week with no stored forecast week.
C23_StoredNetIsTheForecastedValue ==
    comparison.pc = "done" =>
        \A k \in 1..Len(comparison.weeks) :
            IF StoredNetsOfWeek(k) # {}
            THEN comparison.weeks[k].forecasted \in StoredNetsOfWeek(k)
            ELSE comparison.weeks[k].forecasted = MockForecastNet(k)

(***************************************************************************)
(* Persistence claims                                                      *)
(***************************************************************************)
\* no service call is in progress
Quiescent == \A c \in Callers : Free(c)

\* the balance stored on the row before r in week-number order, or the
\* starting balance of the forecast
StoredBalanceBefore(f, r) ==
    LET earlier == {s \in WeeksOf(f.id) : s.week_number < r.week_number}
    IN  IF earlier = {} THEN f.starting_balance
        ELSE (CHOOSE s \in earlier : \A t \in earlier : t.week_number <= s.week_number).balance

\* C24: once the operations have completed, every stored week's balance is
\* the balance of the week before it (the starting balance for the first)
\* plus its own net
C24_StoredBalanceIsRunningFold ==
    Quiescent =>
        \A f \in forecastsTable :
            \A r \in WeeksOf(f.id) : r.balance = StoredBalanceBefore(f, r) + r.net

\* updateForecast of caller c returns in this step
UpdateCompletes(c) == calls[c].pc = "fetchUpdated" /\ calls'[c].pc = "done"

\* C26: when an updateForecast call completes and no other call is still
\* running, the stored week numbers of its forecast are exactly 1..N, N
\* being the weeks value of the forecast record
C26_CompletedUpdateLeavesWeeksOneToN ==
    [][\A c \in Callers :
        UpdateCompletes(c) /\ (\A o \in Callers \ {c} : Free(o)) =>
            \A f \in forecastsTable :
                f.id = calls[c].id =>
                    {r.week_number : r \in WeeksOf(f.id)} = 1..f.weeks]_vars

\* C27: updateForecast returns a forecast only if the delete and the insert
\* both succeeded, and the forecast it returns has stored weeks
C27_ReturnsForecastOnlyIfEveryStepSucceeded ==
    [][\A c \in Callers :
        UpdateCompletes(c) /\ ~calls'[c].result.isNull =>
            /\ calls[c].deleted
            /\ calls[c].inserted
            /\ WeeksOf(calls[c].id) # {}]_vars

\* C28: the user never has more than one active forecast
C28_AtMostOneActiveForecast == Cardinality(ActiveForecasts) <= 1

====
